---------------------------- MODULE Spec2Model ----------------------------
(***************************************************************************)
(* A model of the navigation click binding of src/basic.js and of the      *)
(* snippets of the style guide (format, value || defaultValue, once, util, *)
(* the timer loops and the guard clauses).                                 *)
(*                                                                         *)
(* JavaScript strings are sequences of one-character strings, so that      *)
(* concatenation, searching and replacing are computed and not assumed.    *)
(*                                                                         *)
(* src/basic.js line 9 closes a wrapper whose opening line is not part of  *)
(* the file; lines 1-8 are the setup code.  The model lets the setup code  *)
(* start at any moment at which no script is running, once.                *)
(***************************************************************************)
EXTENDS Integers, Sequences, FiniteSets, TLC

(***************************************************************************)
(* Bounds                                                                  *)
(***************************************************************************)
\* The anchor elements a document can hold over its lifetime.
MaxAnchors == 2

Anchors == 1 .. MaxAnchors

\* Where an anchor is: below a nav element, elsewhere in the document, or
\* not in the document (not yet inserted, or removed).
Places == {"nav", "body", "absent"}

Home == <<"H", "o", "m", "e">>

Texts == {Home, <<>>}

NoAnchor == 0

VARIABLES
  hasNav,       \* the document has a nav element
  where,        \* anchor -> place
  text,         \* anchor -> textContent
  listeners,    \* anchor -> sequence of registered click listeners (closures)
  setupPc,      \* "init", "loop", "done" or "threw"
  navLinks,     \* the result of querySelectorAll (line 1)
  idx,          \* position of forEach in navLinks
  iterations,   \* number of forEach callback invocations
  domAtSetup,   \* history: where, as it was when line 1 ran
  stack,        \* click events being dispatched, each with its handler position
  dialog,       \* the alert dialogs shown and not yet dismissed
  navigated,    \* the anchor whose default action unloaded the document, or 0
  last,         \* history: the last click event whose dispatch finished
  fpc,          \* format: "off", "call", "reduce" or "done"
  fargs,        \* format: the arguments of the call (template first)
  facc,         \* format: the accumulator of reduce
  fidx,         \* format: the next element reduce visits
  apc,          \* a: "off", "idle", "entered", "declared" or "assigned"
  value,        \* a: the parameter
  defaultValue, \* a: the local of that name
  used,         \* a: the local of that name
  ran,          \* once: wrapper -> its variable ran
  ostack,       \* once: the wrapper calls in progress, innermost last
  olog,         \* once: wrapper -> the invocations of fn it made
  ofirst,       \* once: history, wrapper -> its first call (receiver, arguments)
  ocount,       \* once: history, number of wrapper calls made
  upc,          \* util: "off", "call", "built" or "threw"
  uopts,        \* util: the argument options
  foo,          \* util: the private variable foo
  uret,         \* util: the values returned by the calls of uuid, in order
  uresets,      \* util: history, number of runs of reset
  tpc,          \* timers: "off", "loop" or "idle" (the script has ended)
  tform,        \* timers: which of the guide's loops runs
  tvalues,      \* timers: the array values
  ti,           \* timers: the loop variable i
  timers,       \* timers: the pending timers
  tnow,         \* timers: the clock, in seconds
  tlog,         \* timers: what console.log has printed
  gpc,          \* guards: "off" or "ready"
  gin,          \* guards: the values of car, black and turbine
  gbad,         \* guards: what the nested form returned
  ggood         \* guards: what the guard-clause form returned

domVars == <<hasNav, where, text>>
setupVars == <<setupPc, navLinks, idx, iterations, domAtSetup>>
eventVars == <<stack, dialog, navigated, last>>
navVars == <<hasNav, where, text, listeners, setupPc, navLinks, idx, iterations,
             domAtSetup, stack, dialog, navigated, last>>
fmtVars == <<fpc, fargs, facc, fidx>>
aVars == <<apc, value, defaultValue, used>>
onceVars == <<ran, ostack, olog, ofirst, ocount>>
utilVars == <<upc, uopts, foo, uret, uresets>>
timerVars == <<tpc, tform, tvalues, ti, timers, tnow, tlog>>
guardVars == <<gpc, gin, gbad, ggood>>
restVars == <<onceVars, utilVars, timerVars, guardVars>>
pureVars == <<fmtVars, aVars, restVars>>
vars == <<navVars, fmtVars, aVars, restVars>>

(***************************************************************************)
(* Helpers                                                                 *)
(***************************************************************************)
Range(s) == {s[i] : i \in DOMAIN s}

RECURSIVE SeqOfSet(_)
\* The elements of a set of anchors in document order (here: by number).
SeqOfSet(S) ==
  IF S = {} THEN <<>>
  ELSE LET m == CHOOSE x \in S : \A y \in S : x <= y
       IN <<m>> \o SeqOfSet(S \ {m})

RemoveAt(s, i) == SubSeq(s, 1, i - 1) \o SubSeq(s, i + 1, Len(s))

(***************************************************************************)
(* The setup code, src/basic.js lines 1-8                                  *)
(***************************************************************************)
\* document.querySelector-like lookup: null when nothing matches.
QuerySelectorAllOrNull(w) ==
  [isNull |-> {a \in Anchors : w[a] = "nav"} = {},
   items |-> SeqOfSet({a \in Anchors : w[a] = "nav"})]

\* The selector "a": every anchor of the document.
QuerySelectorAllAnchors(w) ==
  [isNull |-> FALSE, items |-> SeqOfSet({a \in Anchors : w[a] # "absent"})]

\* document.querySelector("nav a") as a list: the first match only.
QuerySelectorFirst(w) ==
  LET all == SeqOfSet({a \in Anchors : w[a] = "nav"})
  IN [isNull |-> FALSE, items |-> IF all = <<>> THEN <<>> ELSE <<Head(all)>>]

\* document.querySelectorAll("nav a"): a static list, never null, of the
\* anchors that are descendants of a nav element, in document order.
QuerySelectorAll(w) ==
  [isNull |-> FALSE, items |-> SeqOfSet({a \in Anchors : w[a] = "nav"})]

\* A listener registered with the option {once: true}.
ListenerOnce(link) == [link |-> link, once |-> TRUE]

\* The listener created by one run of the forEach callback: a new function
\* object that closes over link, registered without options.
Listener(link) == [link |-> link, once |-> FALSE]

\* link.addEventListener("click", f) with a function object f that was never
\* registered before: f is appended.
AddEventListener(ls, link) ==
  [ls EXCEPT ![link] = Append(@, Listener(link))]

\* The listener without line 5.
HandlerBodyNoPrevent == <<"alert">>

\* The listener with lines 5 and 6 in the other order.
HandlerBodySwapped == <<"alert", "preventDefault">>

\* The listener with a dialog that does not block in place of alert.
HandlerBodyNonModal == <<"preventDefault", "show">>

\* The statements of the listener, lines 5 and 6.
HandlerBody == <<"preventDefault", "alert">>

Prefix == <<"Y", "o", "u", " ", "c", "l", "i", "c", "k", "e", "d", " ", "o", "n", " ">>

\* The template without the space before the placeholder.
MessageNoSpace(link, txt) == SubSeq(Prefix, 1, Len(Prefix) - 1) \o txt[link]

\* `You clicked on ${link.textContent}`, read when the listener runs.
Message(link, txt) == Prefix \o txt[link]

\* A click event on its way through dispatch.
\*   queue: the target's listeners still to be invoked
\*   cur: the link of the listener being run (0: none); ip: its next statement
\*   waiting: the listener is inside the statement at ip (a dialog is open)
Event(a, ls) ==
  [target |-> a, queue |-> ls, cur |-> NoAnchor, ip |-> 0, waiting |-> FALSE,
   defaultPrevented |-> FALSE, runs |-> 0, alerts |-> 0, msg |-> <<>>]

NoEvent == Event(NoAnchor, <<>>)

\* The dispatch of an event is synchronous and alert() is modal: the event
\* keeps the thread unless its listener is parked in a statement that yields.
Blocks(f) == ~f.waiting \/ HandlerBody[f.ip] = "alert"

\* No script is on the call stack: the event loop can run the next task.
ThreadFree ==
  /\ navigated = NoAnchor
  /\ setupPc # "loop"
  /\ \A i \in DOMAIN stack : ~Blocks(stack[i])

NoDom == [hasNav |-> FALSE, where |-> [a \in Anchors |-> "absent"]]

NavInit ==
  /\ hasNav \in BOOLEAN
  /\ where \in [Anchors -> Places]
  /\ \A a \in Anchors : where[a] = "nav" => hasNav
  /\ text \in [Anchors -> Texts]
  /\ listeners = [a \in Anchors |-> <<>>]
  /\ setupPc = "init"
  /\ navLinks = [isNull |-> FALSE, items |-> <<>>]
  /\ idx = 1
  /\ iterations = 0
  /\ domAtSetup = NoDom
  /\ stack = <<>>
  /\ dialog = <<>>
  /\ navigated = NoAnchor
  /\ last = NoEvent

\* Line 1.
SetupQuery ==
  /\ setupPc = "init"
  /\ ThreadFree
  /\ navLinks' = QuerySelectorAll(where)
  /\ domAtSetup' = [hasNav |-> hasNav, where |-> where]
  /\ idx' = 1
  /\ setupPc' = "loop"
  /\ UNCHANGED <<pureVars, domVars, listeners, iterations, eventVars>>

\* Lines 3-8: one step of navLinks.forEach; calling it on null throws.
SetupForEach ==
  /\ setupPc = "loop"
  /\ IF navLinks.isNull
       THEN /\ setupPc' = "threw"
            /\ UNCHANGED <<pureVars, listeners, idx, iterations>>
       ELSE IF idx <= Len(navLinks.items)
       THEN /\ listeners' = AddEventListener(listeners, navLinks.items[idx])
            /\ idx' = idx + 1
            /\ iterations' = iterations + 1
            /\ UNCHANGED setupPc
       ELSE /\ setupPc' = "done"
            /\ UNCHANGED <<pureVars, listeners, idx, iterations>>
  /\ UNCHANGED <<pureVars, domVars, navLinks, domAtSetup, eventVars>>

(***************************************************************************)
(* The click listener, src/basic.js lines 4-7, and the dispatch of a click *)
(***************************************************************************)
\* The user (or a script) clicks an anchor of the document.
Click(a) ==
  /\ ThreadFree
  /\ where[a] # "absent"
  /\ stack' = Append(stack, Event(a, listeners[a]))
  /\ UNCHANGED <<pureVars, domVars, listeners, setupVars, dialog, navigated, last>>

\* The effect of the statement at f.ip on the event f, for listener f.cur.
Execute(f, txt) ==
  CASE HandlerBody[f.ip] = "preventDefault" ->
         [f EXCEPT !.defaultPrevented = TRUE, !.ip = @ + 1]
    [] HandlerBody[f.ip] = "alert" ->
         [f EXCEPT !.waiting = TRUE, !.alerts = @ + 1,
                   !.msg = Message(f.cur, txt)]
    [] OTHER ->
         \* a dialog that does not block: shown, and the listener yields
         [f EXCEPT !.waiting = TRUE, !.alerts = @ + 1,
                   !.msg = Message(f.cur, txt)]

\* One step of the dispatch of stack[i]: invoke the next listener, run its
\* next statement, or return from it.
HandlerStep(i) ==
  /\ i \in DOMAIN stack
  /\ navigated = NoAnchor
  /\ ~stack[i].waiting
  /\ LET f == stack[i] IN
     IF f.cur = NoAnchor
     THEN /\ f.queue # <<>>
          /\ stack' = [stack EXCEPT ![i] =
                 [f EXCEPT !.cur = Head(f.queue).link, !.queue = Tail(f.queue),
                           !.ip = 1, !.runs = @ + 1]]
          \* a listener registered with once is removed as it is invoked
          /\ listeners' = IF Head(f.queue).once
                             THEN [listeners EXCEPT ![f.target] =
                                     SelectSeq(@, LAMBDA h : h # Head(f.queue))]
                             ELSE listeners
          /\ UNCHANGED dialog
     ELSE IF f.ip <= Len(HandlerBody)
     THEN /\ stack' = [stack EXCEPT ![i] = Execute(f, text)]
          /\ dialog' = IF Execute(f, text).waiting
                          THEN Append(dialog, Execute(f, text).msg)
                          ELSE dialog
          /\ UNCHANGED listeners
     ELSE /\ stack' = [stack EXCEPT ![i] = [f EXCEPT !.cur = NoAnchor, !.ip = 0]]
          /\ UNCHANGED <<dialog, listeners>>
  /\ UNCHANGED <<pureVars, domVars, setupVars, navigated, last>>

\* The user dismisses the dialog of stack[i]: the statement returns.
Dismiss(i) ==
  /\ i \in DOMAIN stack
  /\ navigated = NoAnchor
  /\ stack[i].waiting
  /\ \E k \in DOMAIN dialog :
       /\ dialog[k] = stack[i].msg
       /\ dialog' = RemoveAt(dialog, k)
  /\ stack' = [stack EXCEPT ![i] = [@ EXCEPT !.waiting = FALSE, !.ip = @ + 1]]
  /\ UNCHANGED <<pureVars, domVars, listeners, setupVars, navigated, last>>

\* Every listener has returned: the browser performs the default action of
\* the click, following the link, unless the event's default was prevented.
DefaultAction(i) ==
  /\ i \in DOMAIN stack
  /\ navigated = NoAnchor
  /\ stack[i].cur = NoAnchor
  /\ stack[i].queue = <<>>
  /\ last' = stack[i]
  /\ stack' = RemoveAt(stack, i)
  /\ navigated' = IF stack[i].defaultPrevented THEN NoAnchor ELSE stack[i].target
  /\ UNCHANGED <<pureVars, domVars, listeners, setupVars, dialog>>

(***************************************************************************)
(* The rest of the page: scripts and the user change the document          *)
(***************************************************************************)
InsertAnchor(a, p, t) ==
  /\ ThreadFree
  /\ where[a] = "absent"
  /\ p \in {"nav", "body"}
  /\ p = "nav" => hasNav
  /\ where' = [where EXCEPT ![a] = p]
  /\ text' = [text EXCEPT ![a] = t]
  /\ UNCHANGED <<pureVars, hasNav, listeners, setupVars, eventVars>>

RemoveAnchor(a) ==
  /\ ThreadFree
  /\ where[a] # "absent"
  /\ where' = [where EXCEPT ![a] = "absent"]
  /\ UNCHANGED <<pureVars, hasNav, text, listeners, setupVars, eventVars>>

SetText(a, t) ==
  /\ ThreadFree
  /\ where[a] # "absent"
  /\ text[a] # t
  /\ text' = [text EXCEPT ![a] = t]
  /\ UNCHANGED <<pureVars, hasNav, where, listeners, setupVars, eventVars>>

InsertNav ==
  /\ ThreadFree
  /\ ~hasNav
  /\ hasNav' = TRUE
  /\ UNCHANGED <<pureVars, where, text, listeners, setupVars, eventVars>>

\* Removing the nav element takes its anchors out of the document with it.
RemoveNav ==
  /\ ThreadFree
  /\ hasNav
  /\ hasNav' = FALSE
  /\ where' = [a \in Anchors |-> IF where[a] = "nav" THEN "absent" ELSE where[a]]
  /\ UNCHANGED <<pureVars, text, listeners, setupVars, eventVars>>

FmtOff == fpc = "off" /\ fargs = <<>> /\ facc = <<>> /\ fidx = 0
AOff == apc = "off" /\ value = 0 /\ defaultValue = 0 /\ used = 0

OnceOff == ran = <<>> /\ ostack = <<>> /\ olog = <<>> /\ ofirst = <<>> /\ ocount = 0
UtilOff == upc = "off" /\ uopts = 0 /\ foo = 0 /\ uret = <<>> /\ uresets = 0
TimerOff ==
  /\ tpc = "off" /\ tform = "off" /\ tvalues = <<>> /\ ti = 0
  /\ timers = {} /\ tnow = 0 /\ tlog = <<>>
GuardOff == gpc = "off" /\ gin = <<>> /\ gbad = 0 /\ ggood = 0
RestOff == OnceOff /\ UtilOff /\ TimerOff /\ GuardOff

Init == NavInit /\ FmtOff /\ AOff /\ RestOff

Setup == SetupQuery \/ SetupForEach

Handler == \E i \in DOMAIN stack : HandlerStep(i) \/ Dismiss(i) \/ DefaultAction(i)

Next ==
  \/ SetupQuery
  \/ SetupForEach
  \/ \E i \in DOMAIN stack : HandlerStep(i)
  \/ \E i \in DOMAIN stack : Dismiss(i)
  \/ \E i \in DOMAIN stack : DefaultAction(i)
  \/ \E a \in Anchors : Click(a)
  \/ \E a \in Anchors : RemoveAnchor(a)
  \/ \E a \in Anchors, p \in Places, t \in Texts : InsertAnchor(a, p, t)
  \/ \E a \in Anchors, t \in Texts : SetText(a, t)
  \/ InsertNav
  \/ RemoveNav

Spec == Init /\ [][Next]_vars

(***************************************************************************)
(* Properties of the navigation click binding                              *)
(***************************************************************************)
\* The anchors that were below a nav element when line 1 ran.
NavAtSetup == {a \in Anchors : domAtSetup.where[a] = "nav"}

RECURSIVE TotalListeners(_)
TotalListeners(S) ==
  IF S = {} THEN 0
  ELSE LET a == CHOOSE x \in S : TRUE
       IN Len(listeners[a]) + TotalListeners(S \ {a})

Events == Range(stack) \cup (IF last.target = NoAnchor THEN {} ELSE {last})

YouClickedOnHome ==
  <<"Y", "o", "u", " ", "c", "l", "i", "c", "k", "e", "d", " ", "o", "n", " ",
    "H", "o", "m", "e">>

\* C1: once the setup code has run on a document with N anchors below nav,
\* exactly N click listeners are registered, exactly one on each of them
\* (and none on any other anchor).
C1_OneListenerPerNavAnchor ==
  setupPc = "done" =>
    /\ TotalListeners(Anchors) = Cardinality(NavAtSetup)
    /\ iterations = Cardinality(NavAtSetup)
    /\ \A a \in Anchors :
         listeners[a] = IF a \in NavAtSetup THEN <<Listener(a)>> ELSE <<>>

C1_Witness ==
  /\ setupPc = "done"
  /\ Cardinality(NavAtSetup) = 2
  /\ TotalListeners(Anchors) = 2

\* C2: a click on an anchor that was below nav at setup time never unloads
\* the document: every run of the listener has prevented the default by the
\* time it returns, and no such anchor is the one that navigated.
C2_BoundClickNeverNavigates ==
  /\ navigated \notin NavAtSetup
  /\ \A f \in Events :
       (f.target \in NavAtSetup /\ f.cur = NoAnchor /\ f.queue = <<>>)
         => (f.runs > 0 /\ f.defaultPrevented)

C2_Witness ==
  /\ last.target \in NavAtSetup
  /\ last.defaultPrevented
  /\ navigated = NoAnchor
  /\ \E i \in DOMAIN stack :
       /\ stack[i].target \in NavAtSetup
       /\ stack[i].cur = NoAnchor
       /\ stack[i].queue = <<>>

\* C3: the message shown for a click on a bound anchor is "You clicked on "
\* followed by the anchor's text content and nothing else; for the text
\* "Home" it is "You clicked on Home".
C3_MessageIsPrefixPlusText ==
  \A i \in DOMAIN stack :
    stack[i].waiting =>
      /\ dialog = <<stack[i].msg>>
      /\ stack[i].msg = SubSeq(YouClickedOnHome, 1, 15) \o text[stack[i].target]
      /\ text[stack[i].target] = Home => stack[i].msg = YouClickedOnHome

C3_Witness ==
  /\ dialog = <<YouClickedOnHome>>
  /\ \E i \in DOMAIN stack : stack[i].waiting /\ text[stack[i].target] = Home

\* C4: an anchor that was not below nav when the setup code ran (one added
\* later in particular) has no listener, and a click on it runs no handler,
\* shows no alert and does not have its default prevented.
C4_LateAnchorUnbound ==
  /\ \A a \in Anchors \ NavAtSetup : listeners[a] = <<>>
  /\ \A f \in Events :
       f.target \notin NavAtSetup =>
         /\ f.runs = 0
         /\ f.alerts = 0
         /\ ~f.defaultPrevented
         /\ f.msg \notin Range(dialog)

C4_Witness ==
  /\ setupPc = "done"
  /\ last.target # NoAnchor
  /\ domAtSetup.where[last.target] = "absent"
  /\ where[last.target] = "nav"
  /\ NavAtSetup # {}
  /\ navigated = last.target

\* C5: on a document without a nav element, or with a nav element that holds
\* no anchor, the setup code ends without an error, after zero iterations and
\* with zero listeners registered.
C5_EmptySetupIsNoError ==
  /\ setupPc # "threw"
  /\ (setupPc = "done" /\ NavAtSetup = {}) =>
       /\ iterations = 0
       /\ TotalListeners(Anchors) = 0

C5_Witness ==
  /\ setupPc = "done"
  /\ ~domAtSetup.hasNav
  /\ \E a \in Anchors : domAtSetup.where[a] = "body"
  /\ iterations = 0

\* C6: at most one click is being handled at any time, the only place a
\* handler waits is the modal alert, and a handler leaves nothing behind
\* that runs later.
C6_HandlerRunsToCompletion ==
  /\ Len(stack) <= 1
  /\ \A i \in DOMAIN stack :
       stack[i].waiting => (HandlerBody[stack[i].ip] = "alert" /\ ~ThreadFree)
  /\ stack = <<>> => dialog = <<>>

C6_Witness ==
  /\ last.runs = 1
  /\ Len(stack) = 1
  /\ stack[1].waiting
  /\ stack[1].target # last.target

\* C7: whenever the alert of a click has been displayed, preventDefault has
\* already been called on that click event.
C7_PreventDefaultBeforeAlert ==
  \A f \in Events : f.alerts > 0 => f.defaultPrevented

C7_Witness ==
  \E i \in DOMAIN stack :
    /\ stack[i].waiting
    /\ dialog # <<>>
    /\ stack[i].defaultPrevented

IsPrefix(s, t) == Len(s) <= Len(t) /\ SubSeq(t, 1, Len(s)) = s

\* C8: no step of the dispatch of a click changes the anchors of the
\* document, their text or the registered listeners, and a step of the setup
\* code changes nothing of the document but adds listeners.
C8_FrameOfClickAndSetup ==
  [][ /\ ((\E a \in Anchors : Click(a)) \/ Handler)
         => UNCHANGED <<hasNav, where, text, listeners>>
      /\ Setup
         => /\ UNCHANGED <<hasNav, where, text, eventVars>>
            /\ \A a \in Anchors : IsPrefix(listeners[a], listeners'[a]) ]_vars

C8_Witness ==
  /\ setupPc = "done"
  /\ last.runs = 1
  /\ listeners[last.target] # <<>>
  /\ \E a \in Anchors : a # last.target /\ listeners[a] # <<>>

(***************************************************************************)
(* format, the guide's parameter-replacing function                        *)
(***************************************************************************)
\* Longest template and longest argument string drawn, and most arguments.
MaxTemplateLen == 4
MaxArgLen == 2
MaxArgs == 2

TemplateChars == {"%", "s", "a"}
ArgChars == {"%", "s", "$", "&", "a"}

Strings(chars, n) == UNION {[1 .. k -> chars] : k \in 0 .. n}

OhHai == <<"o", "h", " ", "h", "a", "i", " ", "%", "s", "!">>

Templates == Strings(TemplateChars, MaxTemplateLen) \cup {OhHai}

Placeholder == <<"%", "s">>

\* Whether pat occurs in str at position p.
OccursAt(str, pat, p) ==
  /\ p >= 1
  /\ p + Len(pat) - 1 <= Len(str)
  /\ SubSeq(str, p, p + Len(pat) - 1) = pat

\* String.prototype.indexOf: the first position of pat in str, 0 for none.
IndexOf(str, pat) ==
  IF \E p \in 1 .. Len(str) : OccursAt(str, pat, p)
  THEN CHOOSE p \in 1 .. Len(str) :
         /\ OccursAt(str, pat, p)
         /\ \A q \in 1 .. p - 1 : ~OccursAt(str, pat, q)
  ELSE 0

RECURSIVE GetSubstitution(_, _, _, _)
\* What String.prototype.replace inserts for a replacement string: $$ is a
\* dollar, $& the matched text, $` the text before the match and $' the text
\* after it; any other character, a lone $ included, stands for itself.
GetSubstitution(matched, before, after, repl) ==
  IF repl = <<>> THEN <<>>
  ELSE IF Head(repl) = "$" /\ Len(repl) >= 2 /\ repl[2] \in {"$", "&", "`", "'"}
  THEN (CASE repl[2] = "$" -> <<"$">>
          [] repl[2] = "&" -> matched
          [] repl[2] = "`" -> before
          [] repl[2] = "'" -> after)
       \o GetSubstitution(matched, before, after, Tail(Tail(repl)))
  ELSE <<Head(repl)>> \o GetSubstitution(matched, before, after, Tail(repl))

\* str.replace(pat, repl) with a string pattern: the first occurrence only.
Replace(str, pat, repl) ==
  LET p == IndexOf(str, pat) IN
  IF p = 0 THEN str
  ELSE LET before == SubSeq(str, 1, p - 1)
           after == SubSeq(str, p + Len(pat), Len(str))
       IN before \o GetSubstitution(pat, before, after, repl) \o after

\* function replacer (text, replacement)
Replacer(textArg, replacement) == Replace(textArg, Placeholder, replacement)

FormatInit ==
  /\ fpc = "call"
  /\ \E t \in Templates, k \in 0 .. MaxArgs :
       \E as \in [1 .. k -> Strings(ArgChars, MaxArgLen)] : fargs = <<t>> \o as
  /\ facc = <<>>
  /\ fidx = 0

\* var args = [].slice.call(arguments); var initial = args.shift();
FormatShift ==
  /\ fpc = "call"
  /\ facc' = Head(fargs)
  /\ fidx' = 2
  /\ fpc' = "reduce"
  /\ UNCHANGED <<fargs, navVars, aVars, restVars>>

\* return args.reduce(replacer, initial): one call of replacer, or the return.
FormatReduce ==
  /\ fpc = "reduce"
  /\ IF fidx <= Len(fargs)
       THEN /\ facc' = Replacer(facc, fargs[fidx])
            /\ fidx' = fidx + 1
            /\ UNCHANGED fpc
       ELSE /\ fpc' = "done"
            /\ UNCHANGED <<facc, fidx>>
  /\ UNCHANGED <<fargs, navVars, aVars, restVars>>

NavOff ==
  /\ hasNav = FALSE
  /\ where = [a \in Anchors |-> "absent"]
  /\ text = [a \in Anchors |-> <<>>]
  /\ listeners = [a \in Anchors |-> <<>>]
  /\ setupPc = "off"
  /\ navLinks = [isNull |-> FALSE, items |-> <<>>]
  /\ idx = 1
  /\ iterations = 0
  /\ domAtSetup = NoDom
  /\ stack = <<>>
  /\ dialog = <<>>
  /\ navigated = NoAnchor
  /\ last = NoEvent

FormatNext == FormatShift \/ FormatReduce

FormatSpecInit == NavOff /\ FormatInit /\ AOff /\ RestOff

FormatSpec == FormatSpecInit /\ [][FormatNext]_vars

RECURSIVE CountPlaceholders(_)
\* The number of '%s' in a template, read left to right.
CountPlaceholders(t) ==
  IF Len(t) < 2 THEN 0
  ELSE IF SubSeq(t, 1, 2) = Placeholder
  THEN 1 + CountPlaceholders(SubSeq(t, 3, Len(t)))
  ELSE CountPlaceholders(Tail(t))

RECURSIVE Substituted(_, _)
\* The template with its i-th '%s' replaced by the i-th argument, verbatim.
Substituted(t, as) ==
  IF Len(t) < 2 \/ as = <<>> THEN t
  ELSE IF SubSeq(t, 1, 2) = Placeholder
  THEN Head(as) \o Substituted(SubSeq(t, 3, Len(t)), Tail(as))
  ELSE <<Head(t)>> \o Substituted(Tail(t), as)

\* C9: for a template with k '%s' and k argument strings, format returns the
\* template with its i-th '%s' replaced by the i-th argument, whatever the
\* arguments hold; format('oh hai %s!', name) is 'oh hai ' + name + '!'.
C9_FormatReplacesEachPlaceholder ==
  (fpc = "done" /\ CountPlaceholders(Head(fargs)) = Len(fargs) - 1) =>
    /\ facc = Substituted(Head(fargs), Tail(fargs))
    /\ Head(fargs) = OhHai =>
         facc = SubSeq(OhHai, 1, 7) \o fargs[2] \o <<"!">>

(***************************************************************************)
(* a, the guide's default value with ||                                    *)
(***************************************************************************)
\* Largest magnitude of the numbers and BigInts drawn, longest string drawn,
\* and number of distinct objects drawn.
MaxNum == 3
MaxStrLen == 2
MaxObjects == 2

\* A JavaScript value: its type t, and what tells values of the type apart
\* (the number n, the characters s, or the kind k of a special value).
JsValue(t, k, n, s) == [t |-> t, k |-> k, n |-> n, s |-> s]

Undefined == JsValue("undefined", "undefined", 0, <<>>)
Null == JsValue("null", "null", 0, <<>>)
False == JsValue("boolean", "false", 0, <<>>)
True == JsValue("boolean", "true", 0, <<>>)
Num(n) == JsValue("number", "finite", n, <<>>)
NegZero == JsValue("number", "-0", 0, <<>>)
NaN == JsValue("number", "NaN", 0, <<>>)
Infinity == JsValue("number", "Infinity", 0, <<>>)
BigInt(n) == JsValue("bigint", "finite", n, <<>>)
Str(s) == JsValue("string", "chars", 0, s)
Obj(id) == JsValue("object", "ref", id, <<>>)

ThirtyThree == 33

JsValues ==
  {Undefined, Null, False, True, NegZero, NaN, Infinity, Num(ThirtyThree)}
    \cup {Num(n) : n \in -MaxNum .. MaxNum}
    \cup {BigInt(n) : n \in -MaxNum .. MaxNum}
    \cup {Str(s) : s \in Strings({"0", "a"}, MaxStrLen)}
    \cup {Obj(id) : id \in 1 .. MaxObjects}

\* ToBoolean of ECMAScript.
ToBoolean(v) ==
  CASE v.t = "undefined" -> FALSE
    [] v.t = "null" -> FALSE
    [] v.t = "boolean" -> v.k = "true"
    [] v.t = "number" -> ~(v.k \in {"NaN", "-0"} \/ (v.k = "finite" /\ v.n = 0))
    [] v.t = "bigint" -> v.n # 0
    [] v.t = "string" -> v.s # <<>>
    [] OTHER -> TRUE

\* left ?? right: the right-hand value for null and undefined only.
NullishOr(left, right) == IF left.t \in {"undefined", "null"} THEN right ELSE left

\* left || right
Or(left, right) == IF ToBoolean(left) THEN left ELSE right

AInit ==
  /\ apc = "idle"
  /\ value = Undefined
  /\ defaultValue = Undefined
  /\ used = Undefined

\* a(v) is called: the parameter is bound, the hoisted locals are undefined.
ACall(v) ==
  /\ apc \in {"idle", "returned"}
  /\ value' = v
  /\ defaultValue' = Undefined
  /\ used' = Undefined
  /\ apc' = "entered"
  /\ UNCHANGED <<navVars, fmtVars, restVars>>

\* var defaultValue = 33;
ADeclare ==
  /\ apc = "entered"
  /\ defaultValue' = Num(ThirtyThree)
  /\ apc' = "declared"
  /\ UNCHANGED <<value, used, navVars, fmtVars, restVars>>

\* var used = value || defaultValue;
AAssign ==
  /\ apc = "declared"
  /\ used' = Or(value, defaultValue)
  /\ apc' = "assigned"
  /\ UNCHANGED <<value, defaultValue, navVars, fmtVars, restVars>>

\* The end of the function body.
AReturn ==
  /\ apc = "assigned"
  /\ apc' = "returned"
  /\ UNCHANGED <<value, defaultValue, used, navVars, fmtVars, restVars>>

ANext ==
  \/ \E v \in JsValues : ACall(v)
  \/ ADeclare
  \/ AAssign
  \/ AReturn

ASpecInit == NavOff /\ FmtOff /\ AInit /\ RestOff

ASpec == ASpecInit /\ [][ANext]_vars

\* The values the claim lists: false, 0 (of either sign), null, '' and
\* undefined.
ListedFalsy == {False, Num(0), NegZero, Null, Str(<<>>), Undefined}

\* C10 as stated: used is defaultValue when value is false, 0, null, '' or
\* undefined, and value itself for every other value.
C10_OnlyListedValuesDefault ==
  apc = "assigned" =>
    /\ value \in ListedFalsy => used = defaultValue
    /\ value \notin ListedFalsy => used = value

\* C10 as amended: used is defaultValue (33) when value is false, 0, -0, 0n,
\* NaN, null, '' or undefined, and value itself for every other value.
C10_FalsyValuesDefault ==
  apc = "assigned" =>
    /\ defaultValue = Num(33)
    /\ value \in ListedFalsy \cup {NaN, BigInt(0)} => used = defaultValue
    /\ value \notin ListedFalsy \cup {NaN, BigInt(0)} => used = value

C10_Witness ==
  /\ apc = "assigned"
  /\ value = NaN
  /\ used = Num(33)

(***************************************************************************)
(* once, the guide's run-once wrapper                                      *)
(***************************************************************************)
\* Number of wrappers built by once(fn) and of calls made to them.
MaxOnce == 2
MaxCalls == 3

Wrappers == 1 .. MaxOnce
Receivers == {"window", "obj"}
ArgLists == {<<>>, <<"x">>}

\* The wrapper with ran set only after fn has run.
OnceBodySetLast == <<"check", "apply", "set">>

\* The statements of the function once returns:
\* if (ran) { return }; ran = true; fn.apply(this, arguments);
OnceBody == <<"check", "set", "apply">>

\* A call of a wrapper: receiver, arguments, next statement, whether fn runs.
OnceFrame(w, th, as) == [w |-> w, this |-> th, args |-> as, ip |-> 1, inFn |-> FALSE]

NotCalled == [called |-> FALSE, this |-> "", args |-> <<>>]

OnceInit ==
  /\ ran = [w \in Wrappers |-> FALSE]
  /\ ostack = <<>>
  /\ olog = [w \in Wrappers |-> <<>>]
  /\ ofirst = [w \in Wrappers |-> NotCalled]
  /\ ocount = 0

\* A wrapper is called, by the program or by fn while fn runs.
OnceCall(w, th, as) ==
  /\ ocount < MaxCalls
  /\ IF ostack = <<>> THEN TRUE ELSE ostack[Len(ostack)].inFn
  /\ ostack' = Append(ostack, OnceFrame(w, th, as))
  /\ ofirst' = IF ofirst[w].called THEN ofirst
               ELSE [ofirst EXCEPT ![w] = [called |-> TRUE, this |-> th, args |-> as]]
  /\ ocount' = ocount + 1
  /\ UNCHANGED <<ran, olog, navVars, fmtVars, aVars, utilVars, timerVars, guardVars>>

\* The innermost call runs its next statement, or returns after the last.
OnceStep ==
  /\ ostack # <<>>
  /\ ~ostack[Len(ostack)].inFn
  /\ LET n == Len(ostack)
         f == ostack[n]
     IN IF f.ip > Len(OnceBody)
        THEN /\ ostack' = SubSeq(ostack, 1, n - 1)
             /\ UNCHANGED <<ran, olog>>
        ELSE CASE OnceBody[f.ip] = "check" ->
                    /\ ostack' = IF ran[f.w] THEN SubSeq(ostack, 1, n - 1)
                                 ELSE [ostack EXCEPT ![n].ip = @ + 1]
                    /\ UNCHANGED <<ran, olog>>
               [] OnceBody[f.ip] = "set" ->
                    /\ ran' = [ran EXCEPT ![f.w] = TRUE]
                    /\ ostack' = [ostack EXCEPT ![n].ip = @ + 1]
                    /\ UNCHANGED olog
               [] OnceBody[f.ip] = "apply" ->
                    /\ olog' = [olog EXCEPT ![f.w] =
                                  Append(@, [this |-> f.this, args |-> f.args])]
                    /\ ostack' = [ostack EXCEPT ![n].inFn = TRUE]
                    /\ UNCHANGED ran
  /\ UNCHANGED <<ofirst, ocount, navVars, fmtVars, aVars, utilVars, timerVars, guardVars>>

\* fn ends: it returns, or it throws and the exception leaves the wrapper.
OnceFnEnds(threw) ==
  /\ ostack # <<>>
  /\ ostack[Len(ostack)].inFn
  /\ ostack' = IF threw THEN SubSeq(ostack, 1, Len(ostack) - 1)
               ELSE [ostack EXCEPT ![Len(ostack)] = [@ EXCEPT !.inFn = FALSE, !.ip = @ + 1]]
  /\ UNCHANGED <<ran, olog, ofirst, ocount, navVars, fmtVars, aVars, utilVars,
                 timerVars, guardVars>>

OnceNext ==
  \/ \E w \in Wrappers, th \in Receivers, as \in ArgLists : OnceCall(w, th, as)
  \/ OnceStep
  \/ \E threw \in BOOLEAN : OnceFnEnds(threw)

OnceSpecInit ==
  /\ NavOff /\ FmtOff /\ AOff
  /\ OnceInit /\ UtilOff /\ TimerOff /\ GuardOff

OnceSpec == OnceSpecInit /\ [][OnceNext]_vars

\* C11: a wrapper built by once invokes fn at most once; the invocation is
\* made by its first call, with that call's receiver and arguments, and once
\* no call of the wrapper is in progress every wrapper that was called has
\* invoked fn exactly once.
C11_FnInvokedOnceByFirstCall ==
  \A w \in Wrappers :
    /\ Len(olog[w]) <= 1
    /\ olog[w] # <<>> =>
         /\ ofirst[w].called
         /\ olog[w][1] = [this |-> ofirst[w].this, args |-> ofirst[w].args]
    /\ (ofirst[w].called /\ \A i \in DOMAIN ostack : ostack[i].w # w)
         => Len(olog[w]) = 1

C11_Witness ==
  /\ ocount = 3
  /\ ostack = <<>>
  /\ ~ofirst[2].called
  /\ olog[1] = <<[this |-> "obj", args |-> <<"x">>]>>

(***************************************************************************)
(* util, the guide's factory                                               *)
(***************************************************************************)
\* Number of calls made to the methods of one object.
MaxUuid == 3

\* The number 2^53 + n for n <= 0: the largest odd integer a Number holds
\* is 2^53 - 1.
Pow53(n) == JsValue("number", "2^53", n, <<>>)

StartValues == JsValues \cup {Pow53(n) : n \in -2 .. 0}

\* util(options): options is an object with or without start (an absent
\* property reads as undefined), or is not given at all.
UtilOptions ==
  {[given |-> FALSE, start |-> Undefined]}
    \cup {[given |-> TRUE, start |-> v] : v \in StartValues}

\* ToNumeric of ECMAScript; the strings drawn are made of "0" and "a", the
\* objects are plain objects.
ToNumeric(v) ==
  CASE v.t = "undefined" -> NaN
    [] v.t = "null" -> Num(0)
    [] v.t = "boolean" -> IF v.k = "true" THEN Num(1) ELSE Num(0)
    [] v.t = "number" -> v
    [] v.t = "bigint" -> v
    [] v.t = "string" -> IF \A i \in DOMAIN v.s : v.s[i] = "0" THEN Num(0) ELSE NaN
    [] OTHER -> NaN

\* v + 1 for a numeric v, in IEEE 754 doubles (BigInts are exact).
PlusOne(v) ==
  CASE v.t = "bigint" -> BigInt(v.n + 1)
    [] v.k = "finite" -> Num(v.n + 1)
    [] v.k = "-0" -> Num(1)
    [] v.k = "2^53" -> IF v.n < 0 THEN Pow53(v.n + 1) ELSE v
    [] OTHER -> v

\* ++foo: the new value of foo and the value of the expression.
PreIncrement(v) == [foo |-> PlusOne(ToNumeric(v)), result |-> PlusOne(ToNumeric(v))]

\* foo++: the new value of foo and the value of the expression.
PostIncrement(v) == [foo |-> PlusOne(ToNumeric(v)), result |-> ToNumeric(v)]

\* The object util returns: { uuid: add }.
UtilInterface == {"uuid"}

UtilInit ==
  /\ upc = "call"
  /\ uopts \in UtilOptions
  /\ foo = Undefined
  /\ uret = <<>>
  /\ uresets = 0

\* The body of util: var foo; reset(); return { uuid: add }.  Reading
\* options.start of an options that is not given throws.
UtilBuild ==
  /\ upc = "call"
  /\ IF uopts.given
       THEN /\ foo' = Or(uopts.start, Num(0))
            /\ uresets' = uresets + 1
            /\ upc' = "built"
       ELSE /\ upc' = "threw"
            /\ UNCHANGED <<foo, uresets>>
  /\ UNCHANGED <<uopts, uret, navVars, fmtVars, aVars, onceVars, timerVars, guardVars>>

\* A method of the returned object is called: add for uuid.
UtilInvoke(m) ==
  /\ upc = "built"
  /\ Len(uret) < MaxUuid
  /\ IF m = "uuid"
       THEN /\ foo' = PostIncrement(foo).foo
            /\ uret' = Append(uret, PostIncrement(foo).result)
            /\ UNCHANGED uresets
       ELSE /\ foo' = Or(uopts.start, Num(0))
            /\ uresets' = uresets + 1
            /\ UNCHANGED uret
  /\ UNCHANGED <<upc, uopts, navVars, fmtVars, aVars, onceVars, timerVars, guardVars>>

UtilNext ==
  \/ UtilBuild
  \/ \E m \in UtilInterface : UtilInvoke(m)

UtilSpecInit ==
  /\ NavOff /\ FmtOff /\ AOff
  /\ OnceOff /\ UtilInit /\ TimerOff /\ GuardOff

UtilSpec == UtilSpecInit /\ [][UtilNext]_vars

\* options.start || 0 as the claim reads it: start, or 0 when start is
\* absent or falsy.
StartOrZero ==
  IF uopts.start \in ListedFalsy \cup {NaN, BigInt(0)} THEN Num(0) ELSE uopts.start

\* v + m in exact arithmetic, for a numeric v and m >= 0.
ExactPlus(v, m) ==
  CASE v.t = "bigint" -> BigInt(v.n + m)
    [] v.k = "finite" -> Num(v.n + m)
    [] v.k = "2^53" -> Pow53(v.n + m)
    [] OTHER -> v

FiniteStart ==
  \/ uopts.start \in ListedFalsy \cup {NaN, BigInt(0)}
  \/ uopts.start.t = "number" /\ uopts.start.k \in {"finite", "2^53"}

MaxClock == 4

\* var values = [1, 2, 3];
TimerValues == <<Num(1), Num(2), Num(3)>>

TimerForms == {"argument", "wait", "forEach"}

\* values[i] of JavaScript: undefined outside the array.
ElementAt(values, i) == IF i + 1 \in DOMAIN values THEN values[i + 1] ELSE Undefined

\* 1000 * i milliseconds, in seconds.
Delay(i) == i

\* A callback that reads the loop variable i when it runs.
CallbackShared(form, i, values) == [reads |-> "shared", i |-> i, v |-> Undefined]

\* The function handed to setTimeout in iteration i: "argument" gets i back
\* as its parameter from the timer, "wait" closes over the parameter i of
\* wait, and "forEach" closes over the parameter value of its iteration.
Callback(form, i, values) ==
  IF form = "forEach"
  THEN [reads |-> "value", i |-> i, v |-> ElementAt(values, i)]
  ELSE [reads |-> "own", i |-> i, v |-> Undefined]

\* What the callback cb hands to console.log when it runs.
Logged(cb, values, loopVar) ==
  CASE cb.reads = "value" -> cb.v
    [] cb.reads = "own" -> ElementAt(values, cb.i)
    [] OTHER -> ElementAt(values, loopVar)

TimerInit ==
  /\ tpc = "loop"
  /\ tform \in TimerForms
  /\ tvalues = TimerValues
  /\ ti = 0
  /\ timers = {}
  /\ tnow = 0
  /\ tlog = <<>>

\* One iteration of the loop (i < values.length), or its end.
TimerLoop ==
  /\ tpc = "loop"
  /\ IF ti < Len(tvalues)
       THEN /\ timers' = timers \cup
                 {[id |-> ti + 1, due |-> tnow + Delay(ti),
                   cb |-> Callback(tform, ti, tvalues)]}
            /\ ti' = ti + 1
            /\ UNCHANGED tpc
       ELSE /\ tpc' = "idle"
            /\ UNCHANGED <<timers, ti>>
  /\ UNCHANGED <<tform, tvalues, tnow, tlog, navVars, fmtVars, aVars, onceVars,
                 utilVars, guardVars>>

\* Time passes.
TimerTick ==
  /\ tnow < MaxClock
  /\ tnow' = tnow + 1
  /\ UNCHANGED <<tpc, tform, tvalues, ti, timers, tlog, navVars, fmtVars, aVars,
                 onceVars, utilVars, guardVars>>

\* The event loop runs a timer: the script has ended, the timer is due, and
\* no pending timer is due earlier or was set earlier for the same time.
TimerFire(t) ==
  /\ tpc = "idle"
  /\ t \in timers
  /\ t.due <= tnow
  /\ \A u \in timers : u.due > t.due \/ (u.due = t.due /\ u.id >= t.id)
  /\ tlog' = Append(tlog, Logged(t.cb, tvalues, ti))
  /\ timers' = timers \ {t}
  /\ UNCHANGED <<tpc, tform, tvalues, ti, tnow, navVars, fmtVars, aVars, onceVars,
                 utilVars, guardVars>>

TimerNext ==
  \/ TimerLoop
  \/ TimerTick
  \/ \E t \in timers : TimerFire(t)

TimerSpecInit ==
  /\ NavOff /\ FmtOff /\ AOff
  /\ OnceOff /\ UtilOff /\ TimerInit /\ GuardOff

TimerSpec == TimerSpecInit /\ [][TimerNext]_vars

\* C13: in each of the three loops nothing is logged before the loop has
\* ended, the values logged so far are 1, 2, 3 in this order and as far as
\* the timers have run, and once every timer has run each was logged once.
C13_EachCallbackLogsItsOwnElement ==
  /\ tpc = "loop" => tlog = <<>>
  /\ Len(tlog) <= 3
  /\ \A k \in DOMAIN tlog : tlog[k] = Num(k)
  /\ Len(tlog) + Cardinality(timers) = ti
  /\ (tpc = "idle" /\ timers = {}) => tlog = <<Num(1), Num(2), Num(3)>>

C13_Witness ==
  /\ tpc = "idle"
  /\ timers = {}
  /\ tform = "wait"
  /\ ti = 3
  /\ tlog = <<Num(1), Num(2), Num(3)>>

(***************************************************************************)
(* The guide's guard clauses and the nested ifs they replace               *)
(***************************************************************************)
Batman == Str(<<"b", "a", "t", "m", "a", "n", "!">>)

\* The nested form: falling off the end of the function returns undefined.
BadForm(car, black, turbine) ==
  IF ToBoolean(car)
  THEN IF ToBoolean(black)
       THEN IF ToBoolean(turbine) THEN Batman ELSE Undefined
       ELSE Undefined
  ELSE Undefined

\* The guard-clause form without its last guard.
GoodFormTwoGuards(car, black, turbine) ==
  IF ~ToBoolean(car) THEN Undefined
  ELSE IF ~ToBoolean(black) THEN Undefined
  ELSE Batman

\* The guard-clause form: a bare return returns undefined.
GoodForm(car, black, turbine) ==
  IF ~ToBoolean(car) THEN Undefined
  ELSE IF ~ToBoolean(black) THEN Undefined
  ELSE IF ~ToBoolean(turbine) THEN Undefined
  ELSE Batman

NotRun == [done |-> FALSE, v |-> Undefined]

Returned(v) == [done |-> TRUE, v |-> v]

GuardInit ==
  /\ gpc = "ready"
  /\ gin \in [car : JsValues, black : JsValues, turbine : JsValues]
  /\ gbad = NotRun
  /\ ggood = NotRun

\* A function whose body is the nested form is called.
GuardRunBad ==
  /\ gpc = "ready"
  /\ ~gbad.done
  /\ gbad' = Returned(BadForm(gin.car, gin.black, gin.turbine))
  /\ UNCHANGED <<gpc, gin, ggood, navVars, fmtVars, aVars, onceVars, utilVars,
                 timerVars>>

\* A function whose body is the guard-clause form is called.
GuardRunGood ==
  /\ gpc = "ready"
  /\ ~ggood.done
  /\ ggood' = Returned(GoodForm(gin.car, gin.black, gin.turbine))
  /\ UNCHANGED <<gpc, gin, gbad, navVars, fmtVars, aVars, onceVars, utilVars,
                 timerVars>>

GuardNext == GuardRunBad \/ GuardRunGood

GuardSpecInit ==
  /\ NavOff /\ FmtOff /\ AOff
  /\ OnceOff /\ UtilOff /\ TimerOff /\ GuardInit

GuardSpec == GuardSpecInit /\ [][GuardNext]_vars

\* The falsy values of JavaScript among the values drawn.
Falsy == {False, Num(0), NegZero, BigInt(0), NaN, Null, Str(<<>>), Undefined}

\* C14: for all values of car, black and turbine the guard-clause form and
\* the nested form return the same value: 'batman!' exactly when all three
\* are truthy, undefined otherwise.
C14_GuardClausesEquivalent ==
  (gbad.done /\ ggood.done) =>
    /\ gbad.v = ggood.v
    /\ ggood.v =
         IF gin.car \notin Falsy /\ gin.black \notin Falsy /\ gin.turbine \notin Falsy
         THEN Batman ELSE Undefined

C14_Witness ==
  /\ gbad.done /\ ggood.done
  /\ gin.car = True /\ gin.black = Str(<<"0">>) /\ gin.turbine = NaN
  /\ ggood.v = Undefined

====
